---- MODULE Spec2Model ----
(***************************************************************************)
(* hello-plugin: the three entry points execute, validate_input and        *)
(* collect_data of samples/plugins/hello-plugin/src/lib.rs, with the       *)
(* request decoder, the four handlers and the outcome encoder.             *)
(*                                                                         *)
(* Representation.  A Rust String that is inspected character by character *)
(* (JSON string values, the function name, userId) is the sequence of its  *)
(* characters, each a one-character string.  HashMap keys, error messages  *)
(* and the action directive are only ever compared and concatenated, and   *)
(* are TLA+ strings.  A HashMap is a function whose DOMAIN is its key set. *)
(* Option<T> is None or Some(x).                                           *)
(***************************************************************************)
EXTENDS Integers, Sequences, FiniteSets, TLC

VARIABLES last, log

vars == <<last, log>>

-----------------------------------------------------------------------------
(* Option<T> *)

None == [some |-> FALSE]

Some(x) == [some |-> TRUE, val |-> x]

unwrap_or(o, d) == IF o.some THEN o.val ELSE d

-----------------------------------------------------------------------------
(* serde_json::Value *)

JNull == [t |-> "null"]

JBool(b) == [t |-> "bool", b |-> b]

\* serde_json stores an integer literal as PosInt (u64) or NegInt (i64)
JInt(n) == [t |-> "num", k |-> IF n >= 0 THEN "PosInt" ELSE "NegInt", n |-> n]

\* a literal with a fraction or exponent is stored as Float (f64); the value
\* modelled is whole + 1/2 when half, and whole (30.0) otherwise
JFloat(w, h) == [t |-> "num", k |-> "Float", whole |-> w, half |-> h]

JStr(s) == [t |-> "str", s |-> s]

JArr(a) == [t |-> "arr", a |-> a]

JObj(m) == [t |-> "obj", m |-> m]

\* Value::as_str: Some for a JSON string, None for every other value
as_str(v) == IF v.t = "str" THEN Some(v.s) ELSE None

\* Value::as_i64: Some for PosInt and NegInt, None for Float and non-numbers
\* (a PosInt above i64::MAX also gives None; no such value is drawn here)
as_i64(v) == IF v.t = "num" /\ v.k \in {"PosInt", "NegInt"} THEN Some(v.n) ELSE None

-----------------------------------------------------------------------------
(* HashMap<String, Value> *)

EmptyMap == [k \in {} |-> JNull]

\* HashMap::get
get(m, k) == IF k \in DOMAIN m THEN Some(m[k]) ELSE None

\* HashMap::insert: the new value replaces an earlier one under the same key
insert(m, k, v) == [x \in (DOMAIN m) \cup {k} |-> IF x = k THEN v ELSE m[x]]

\* The orders in which `for (key, value) in &map` may visit the entries: the
\* order of a std HashMap is unspecified and differs from map to map.
IterationOrders(m) ==
    {o \in [1..Cardinality(DOMAIN m) -> DOMAIN m] :
        \A i, j \in 1..Cardinality(DOMAIN m) : i # j => o[i] # o[j]}

-----------------------------------------------------------------------------
(* Strings *)

\* format!("{}", s): the characters of s written out
RECURSIVE Display(_)
Display(s) == IF s = <<>> THEN "" ELSE Head(s) \o Display(Tail(s))

Lower == <<"a", "b", "c", "d", "e", "f", "g", "h", "i", "j", "k", "l", "m", "n", "o", "p", "q", "r", "s", "t", "u", "v", "w", "x", "y", "z">>

Upper == <<"A", "B", "C", "D", "E", "F", "G", "H", "I", "J", "K", "L", "M", "N", "O", "P", "Q", "R", "S", "T", "U", "V", "W", "X", "Y", "Z">>

\* char::to_uppercase on the characters drawn here: a lower-case letter maps
\* to its capital, every other character to itself
char_to_uppercase(c) ==
    IF \E i \in DOMAIN Lower : Lower[i] = c
    THEN Upper[CHOOSE i \in DOMAIN Lower : Lower[i] = c]
    ELSE c

\* str::to_uppercase
to_uppercase(s) == [i \in DOMAIN s |-> char_to_uppercase(s[i])]

\* str::contains(char)
contains(s, c) == \E i \in DOMAIN s : s[i] = c

\* str::is_empty
is_empty(s) == Len(s) = 0

\* [&str]::join
RECURSIVE join(_, _)
join(v, sep) ==
    IF v = <<>> THEN ""
    ELSE IF Len(v) = 1 THEN v[1]
    ELSE v[1] \o sep \o join(Tail(v), sep)

-----------------------------------------------------------------------------
(* struct PluginOutput and its constructors *)

PluginOutput_success(data) ==
    [success |-> TRUE, error |-> None, action |-> Some("continue"), data |-> Some(data)]

\* mutant of PluginOutput_error: the failure keeps an (empty) data map
PluginOutput_error_with_data(message) ==
    [success |-> FALSE, error |-> Some(message), action |-> Some("fail"),
     data |-> Some(EmptyMap)]

PluginOutput_error(message) ==
    [success |-> FALSE, error |-> Some(message), action |-> Some("fail"), data |-> None]

PluginOutput_require_input(data) ==
    [success |-> TRUE, error |-> None, action |-> Some("require_input"), data |-> Some(data)]

\* mutant of PluginOutput_branch: branchId is not inserted
PluginOutput_branch_no_id(branch_id, data) ==
    [success |-> TRUE, error |-> None, action |-> Some("branch"), data |-> Some(data)]

PluginOutput_branch(branch_id, data) ==
    LET output_data == insert(data, "branchId", JStr(branch_id))
    IN  [success |-> TRUE, error |-> None, action |-> Some("branch"),
         data |-> Some(output_data)]

-----------------------------------------------------------------------------
(* Result<T, E> *)

Ok(x) == [ok |-> TRUE, val |-> x]

Err(e) == [ok |-> FALSE, err |-> e]

-----------------------------------------------------------------------------
(* Request decoder: serde_json::from_str::<PluginInput>                    *)
(* A request text is [wf |-> FALSE] when it is not JSON at all, and        *)
(* [wf |-> TRUE, doc |-> v] when it is the JSON text of the value v.       *)

\* a required String field
de_string(f) == IF f.some /\ f.val.t = "str" THEN Ok(f.val.s) ELSE Err("field")

\* an Option<String> field: a missing field and null both give None
de_option_string(f) ==
    IF ~f.some \/ f.val.t = "null" THEN Ok(None)
    ELSE IF f.val.t = "str" THEN Ok(Some(f.val.s))
    ELSE Err("field")

\* a required HashMap<String, Value> field
de_map(f) == IF f.some /\ f.val.t = "obj" THEN Ok(f.val.m) ELSE Err("field")

\* the five fields of the struct, each the JSON value read for it, or None when
\* the text has no value for it
PluginInput(f, u, t, i, j) ==
    LET function == de_string(f)
        user_id == de_option_string(u)
        tenant_id == de_option_string(t)
        input == de_map(i)
        journey_data == de_map(j)
    IN  IF function.ok /\ user_id.ok /\ tenant_id.ok /\ input.ok /\ journey_data.ok
        THEN Ok([function |-> function.val, user_id |-> user_id.val,
                 tenant_id |-> tenant_id.val, input |-> input.val,
                 journey_data |-> journey_data.val])
        ELSE Err("field")

\* #[serde(rename_all = "camelCase")]: a JSON object is read by the keys function,
\* userId, tenantId, input, journeyData, any other key being ignored; a JSON
\* array is read by position and must hold exactly the five fields
from_str(input_json) ==
    IF ~input_json.wf THEN Err("syntax")
    ELSE LET doc == input_json.doc
         IN  IF doc.t = "obj"
             THEN PluginInput(get(doc.m, "function"), get(doc.m, "userId"),
                              get(doc.m, "tenantId"), get(doc.m, "input"),
                              get(doc.m, "journeyData"))
             ELSE IF doc.t = "arr" /\ Len(doc.a) = 5
             THEN PluginInput(Some(doc.a[1]), Some(doc.a[2]), Some(doc.a[3]),
                              Some(doc.a[4]), Some(doc.a[5]))
             ELSE Err("type")

-----------------------------------------------------------------------------
(* Outcome encoder: serde_json::to_string::<PluginOutput>                  *)

\* #[serde(skip_serializing_if = "Option::is_none")]
skip_if_none(name, o) == IF o.some THEN name :> o.val ELSE [k \in {} |-> TRUE]

\* the JSON object written: success always, the other fields when present
to_string(output) ==
    ("success" :> output.success)
    @@ skip_if_none("error", output.error)
    @@ skip_if_none("action", output.action)
    @@ skip_if_none("data", output.data)

-----------------------------------------------------------------------------
(* Handlers *)

greet(input) ==
    LET n == get(input.input, "name")
        name == unwrap_or(IF n.some THEN as_str(n.val) ELSE None, <<"W", "o", "r", "l", "d">>)
        user_id == unwrap_or(input.user_id, <<"a", "n", "o", "n", "y", "m", "o", "u", "s">>)
        data == insert(insert(insert(EmptyMap,
                    "greeting", JStr(<<"H", "e", "l", "l", "o", ",", " ">> \o name \o <<"!">>)),
                    "user_id", JStr(user_id)),
                    "plugin_version", JStr(<<"1", ".", "0", ".", "0">>))
    IN  PluginOutput_success(data)

AgeMin == 0

AgeMax == 150

\* mutant of validate: the age check is skipped once the email check failed
validate_short_circuit(input) ==
    LET email == get(input.input, "email")
        age == get(input.input, "age")
        email_str == unwrap_or(IF email.some THEN as_str(email.val) ELSE None, <<>>)
        errors1 ==
            IF ~email.some \/ is_empty(email_str)
            THEN <<"Email is required">>
            ELSE IF ~contains(email_str, "@")
                 THEN <<"Email must contain @">>
                 ELSE <<>>
        errors2 ==
            IF errors1 = <<>> /\ age.some
            THEN IF as_i64(age.val).some
                 THEN IF as_i64(age.val).val < AgeMin \/ as_i64(age.val).val > AgeMax
                      THEN Append(errors1, "Age must be between 0 and 150")
                      ELSE errors1
                 ELSE Append(errors1, "Age must be a number")
            ELSE errors1
    IN  IF errors2 = <<>>
        THEN PluginOutput_success(insert(EmptyMap, "validated", JBool(TRUE)))
        ELSE PluginOutput_error(join(errors2, "; "))

validate(input) ==
    LET email == get(input.input, "email")
        age == get(input.input, "age")
        email_str == unwrap_or(IF email.some THEN as_str(email.val) ELSE None, <<>>)
        errors0 == <<>>
        errors1 ==
            IF ~email.some \/ is_empty(email_str)
            THEN Append(errors0, "Email is required")
            ELSE IF ~contains(email_str, "@")
                 THEN Append(errors0, "Email must contain @")
                 ELSE errors0
        errors2 ==
            IF age.some
            THEN IF as_i64(age.val).some
                 THEN IF as_i64(age.val).val < AgeMin \/ as_i64(age.val).val > AgeMax
                      THEN Append(errors1, "Age must be between 0 and 150")
                      ELSE errors1
                 ELSE Append(errors1, "Age must be a number")
            ELSE errors1
    IN  IF errors2 = <<>>
        THEN PluginOutput_success(insert(EmptyMap, "validated", JBool(TRUE)))
        ELSE PluginOutput_error(join(errors2, "; "))

\* mutant of transform_loop: a string value is re-keyed but not upper-cased
RECURSIVE transform_loop_no_uppercase(_, _, _)
transform_loop_no_uppercase(m, order, data) ==
    IF order = <<>> THEN data
    ELSE LET key == Head(order)
             value == m[key]
         IN  transform_loop_no_uppercase(m, Tail(order),
                 IF as_str(value).some
                 THEN insert(data, key \o "_transformed", JStr(as_str(value).val))
                 ELSE insert(data, key, value))

\* the loop of transform over the entries of input, visited in `order`
RECURSIVE transform_loop(_, _, _)
transform_loop(m, order, data) ==
    IF order = <<>> THEN data
    ELSE LET key == Head(order)
             value == m[key]
         IN  transform_loop(m, Tail(order),
                 IF as_str(value).some
                 THEN insert(data, key \o "_transformed",
                             JStr(to_uppercase(as_str(value).val)))
                 ELSE insert(data, key, value))

transform(input, order) ==
    LET data0 == transform_loop(input.input, order, EmptyMap)
        data1 == insert(data0, "transformed_at", JStr(<<"2", "0", "2", "4", "-", "0", "1", "-", "0", "1", "T", "0", "0", ":", "0", "0", ":", "0", "0", "Z">>))
        data2 == insert(data1, "transformer", JStr(<<"h", "e", "l", "l", "o", "-", "p", "l", "u", "g", "i", "n">>))
    IN  PluginOutput_success(data2)

branch_example(input) ==
    LET r == get(input.input, "role")
        role == unwrap_or(IF r.some THEN as_str(r.val) ELSE None, <<"u", "s", "e", "r">>)
        branch_id ==
            CASE role = <<"a", "d", "m", "i", "n">> -> <<"a", "d", "m", "i", "n", "_", "f", "l", "o", "w">>
              [] role = <<"m", "o", "d", "e", "r", "a", "t", "o", "r">> -> <<"m", "o", "d", "e", "r", "a", "t", "o", "r", "_", "f", "l", "o", "w">>
              [] OTHER -> <<"d", "e", "f", "a", "u", "l", "t", "_", "f", "l", "o", "w">>
        data == insert(insert(EmptyMap,
                    "selected_branch", JStr(branch_id)),
                    "role", JStr(role))
    IN  PluginOutput_branch(branch_id, data)

-----------------------------------------------------------------------------
(* Entry points *)

\* mutant of Dispatch: the function name is matched without regard to case
Dispatch_ignore_case(function) ==
    CASE to_uppercase(function) = <<"E", "X", "E", "C", "U", "T", "E">> \/ to_uppercase(function) = <<"G", "R", "E", "E", "T">> -> "greet"
      [] to_uppercase(function) = <<"V", "A", "L", "I", "D", "A", "T", "E">> -> "validate"
      [] to_uppercase(function) = <<"T", "R", "A", "N", "S", "F", "O", "R", "M">> -> "transform"
      [] to_uppercase(function) = <<"B", "R", "A", "N", "C", "H">> -> "branch_example"
      [] OTHER -> "none"

\* the arm of the match in execute that the function name selects
Dispatch(function) ==
    CASE function = <<"e", "x", "e", "c", "u", "t", "e">> \/ function = <<"g", "r", "e", "e", "t">> -> "greet"
      [] function = <<"v", "a", "l", "i", "d", "a", "t", "e">> -> "validate"
      [] function = <<"t", "r", "a", "n", "s", "f", "o", "r", "m">> -> "transform"
      [] function = <<"b", "r", "a", "n", "c", "h">> -> "branch_example"
      [] OTHER -> "none"

\* mutant of execute: an unknown function name is a hard failure
execute_unknown_is_err(input_json, order) ==
    LET parsed == from_str(input_json)
        input == parsed.val
        arm == Dispatch(input.function)
        output ==
            CASE arm = "greet" -> greet(input)
              [] arm = "validate" -> validate(input)
              [] arm = "transform" -> transform(input, order)
              [] OTHER -> branch_example(input)
    IN  IF ~parsed.ok THEN Err("Failed to parse input")
        ELSE IF arm = "none" THEN Err("Unknown function")
        ELSE Ok(to_string(output))

execute(input_json, order) ==
    LET parsed == from_str(input_json)
        input == parsed.val
        arm == Dispatch(input.function)
        output ==
            CASE arm = "greet" -> greet(input)
              [] arm = "validate" -> validate(input)
              [] arm = "transform" -> transform(input, order)
              [] arm = "branch_example" -> branch_example(input)
              [] OTHER -> PluginOutput_error("Unknown function: " \o Display(input.function))
    IN  IF ~parsed.ok THEN Err("Failed to parse input")
        ELSE Ok(to_string(output))

\* mutant of validate_input: the request is dispatched on its function name
validate_input_dispatching(input_json) == execute(input_json, <<>>)

validate_input(input_json) ==
    LET parsed == from_str(input_json)
        output == validate(parsed.val)
    IN  IF ~parsed.ok THEN Err("Failed to parse input")
        ELSE Ok(to_string(output))

Field(name, type, label) ==
    insert(insert(insert(EmptyMap, "name", JStr(name)), "type", JStr(type)),
           "label", JStr(label))

Option_(value, label) ==
    JObj(insert(insert(EmptyMap, "value", JStr(value)), "label", JStr(label)))

form_schema ==
    insert(insert(insert(EmptyMap,
        "title", JStr(<<"A", "d", "d", "i", "t", "i", "o", "n", "a", "l", " ", "I", "n", "f", "o", "r", "m", "a", "t", "i", "o", "n">>)),
        "description", JStr(<<"P", "l", "e", "a", "s", "e", " ", "p", "r", "o", "v", "i", "d", "e", " ", "t", "h", "e", " ", "f", "o", "l", "l", "o", "w", "i", "n", "g", " ", "i", "n", "f", "o", "r", "m", "a", "t", "i", "o", "n">>)),
        "fields", JArr(<<
            JObj(insert(Field(<<"c", "o", "m", "p", "a", "n", "y">>, <<"t", "e", "x", "t">>, <<"C", "o", "m", "p", "a", "n", "y", " ", "N", "a", "m", "e">>),
                        "required", JBool(TRUE))),
            JObj(insert(Field(<<"d", "e", "p", "a", "r", "t", "m", "e", "n", "t">>, <<"s", "e", "l", "e", "c", "t">>, <<"D", "e", "p", "a", "r", "t", "m", "e", "n", "t">>),
                        "options", JArr(<<
                            Option_(<<"e", "n", "g", "i", "n", "e", "e", "r", "i", "n", "g">>, <<"E", "n", "g", "i", "n", "e", "e", "r", "i", "n", "g">>),
                            Option_(<<"s", "a", "l", "e", "s">>, <<"S", "a", "l", "e", "s">>),
                            Option_(<<"m", "a", "r", "k", "e", "t", "i", "n", "g">>, <<"M", "a", "r", "k", "e", "t", "i", "n", "g">>),
                            Option_(<<"s", "u", "p", "p", "o", "r", "t">>, <<"S", "u", "p", "p", "o", "r", "t">>)>>))),
            JObj(insert(Field(<<"n", "o", "t", "e", "s">>, <<"t", "e", "x", "t", "a", "r", "e", "a">>, <<"A", "d", "d", "i", "t", "i", "o", "n", "a", "l", " ", "N", "o", "t", "e", "s">>),
                        "rows", JInt(3)))>>))

collect_data(input_json) ==
    LET output == PluginOutput_require_input(form_schema)
    IN  Ok(to_string(output))

-----------------------------------------------------------------------------
(* Request texts drawn by the calls *)

MaxLen == 2

MaxEntries == 2

MaxCalls == 3

Text(doc) == [wf |-> TRUE, doc |-> doc]

Entry(k, o) == IF o.some THEN k :> o.val ELSE EmptyMap

RequestFor(function, user_id, input) ==
    Text(JObj(("function" :> JStr(function)) @@ Entry("userId", user_id)
              @@ ("input" :> JObj(input)) @@ ("journeyData" :> JObj(EmptyMap))))

Request(function, input) == RequestFor(function, None, input)

FunctionNames ==
    {<<"e", "x", "e", "c", "u", "t", "e">>, <<"g", "r", "e", "e", "t">>, <<"v", "a", "l", "i", "d", "a", "t", "e">>, <<"t", "r", "a", "n", "s", "f", "o", "r", "m">>, <<"b", "r", "a", "n", "c", "h">>,
     <<"n", "o", "p", "e">>, <<"G", "r", "e", "e", "t">>, <<"V", "A", "L", "I", "D", "A", "T", "E">>, <<"t", "r", "a", "n", "s">>, <<"b", "r", "a", "n", "c", "h", "_", "e", "x", "a", "m", "p", "l", "e">>, <<>>}

Strings(alphabet, n) == UNION {[1..k -> alphabet] : k \in 0..n}

EmailValues ==
    {None, Some(JNull), Some(JInt(7))}
    \cup {Some(JStr(s)) : s \in Strings({"a", "@"}, MaxLen)}

AgeValues ==
    {None, Some(JInt(AgeMin - 1)), Some(JInt(AgeMin)), Some(JInt(30)),
     Some(JInt(AgeMax)), Some(JInt(AgeMax + 1)), Some(JFloat(30, TRUE)),
     Some(JFloat(30, FALSE)), Some(JFloat(200, TRUE)), Some(JStr(<<"3", "0">>)), Some(JNull)}

ValidateInputs == {Entry("email", e) @@ Entry("age", a) : e \in EmailValues, a \in AgeValues}

TransformKeys == {"x", "x_transformed", "transformer", "transformed_at"}

TransformValues == {JStr(<<"a", "b">>), JStr(<<"Q", "z", "@">>), JInt(5), JNull}

TransformInputs ==
    UNION {[K -> TransformValues] :
              K \in {S \in SUBSET TransformKeys : Cardinality(S) <= MaxEntries}}

RoleValues ==
    {None, Some(JStr(<<"a", "d", "m", "i", "n">>)), Some(JStr(<<"m", "o", "d", "e", "r", "a", "t", "o", "r">>)), Some(JStr(<<"u", "s", "e", "r">>)),
     Some(JStr(<<"A", "d", "m", "i", "n">>)), Some(JStr(<<"g", "u", "e", "s", "t">>)), Some(JStr(<<>>)), Some(JInt(1)),
     Some(JNull)}

BranchInputs == {Entry("role", r) : r \in RoleValues}

GreetInputs == {Entry("name", n) : n \in {None, Some(JStr(<<"A", "n", "n">>)), Some(JInt(1))}}

UserIds == {None, Some(JNull), Some(JStr(<<"u", "1">>))}

\* texts that are no request: not JSON, not an object, a required field missing
\* or of the wrong type
UndecodableTexts ==
    {[wf |-> FALSE], Text(JNull), Text(JInt(1)), Text(JArr(<<>>)),
     Text(JArr(<<JStr(<<"g", "r", "e", "e", "t">>), JNull, JNull, JObj(EmptyMap)>>)),
     Text(JObj(EmptyMap)),
     Text(JObj(("input" :> JObj(EmptyMap)) @@ ("journeyData" :> JObj(EmptyMap)))),
     Text(JObj(("function" :> JInt(1)) @@ ("input" :> JObj(EmptyMap))
               @@ ("journeyData" :> JObj(EmptyMap)))),
     Text(JObj(("function" :> JStr(<<"v", "a", "l", "i", "d", "a", "t", "e">>)) @@ ("journeyData" :> JObj(EmptyMap)))),
     Text(JObj(("function" :> JStr(<<"v", "a", "l", "i", "d", "a", "t", "e">>)) @@ ("input" :> JNull)
               @@ ("journeyData" :> JObj(EmptyMap)))),
     Text(JObj(("function" :> JStr(<<"n", "o", "p", "e">>)) @@ ("input" :> JObj(EmptyMap)))),
     Text(JObj(("function" :> JStr(<<"g", "r", "e", "e", "t">>)) @@ ("userId" :> JInt(1))
               @@ ("input" :> JObj(EmptyMap)) @@ ("journeyData" :> JObj(EmptyMap))))}

\* requests in an unusual but decodable form: an unknown extra key, a populated
\* journeyData, the positional form
OtherTexts ==
    {Text(JObj(("function" :> JStr(<<"g", "r", "e", "e", "t">>)) @@ ("input" :> JObj(EmptyMap))
               @@ ("journeyData" :> JObj("step" :> JInt(1))) @@ ("extra" :> JBool(TRUE))
               @@ ("tenantId" :> JStr(<<"t", "1">>)))),
     Text(JArr(<<JStr(<<"v", "a", "l", "i", "d", "a", "t", "e">>), JNull, JStr(<<"t", "1">>),
                 JObj("email" :> JStr(<<"a", "@", "b">>)), JObj(EmptyMap)>>))}

Texts ==
    {RequestFor(f, u, i) : f \in FunctionNames, u \in UserIds, i \in GreetInputs}
    \cup {Request(f, i) : f \in FunctionNames,
              i \in ValidateInputs \cup TransformInputs \cup BranchInputs}
    \cup UndecodableTexts \cup OtherTexts

\* the texts of the call sequences
SeqTexts ==
    {Request(<<"t", "r", "a", "n", "s", "f", "o", "r", "m">>, ("x" :> JStr(<<"a", "b">>)) @@ ("x_transformed" :> JInt(5))),
     Request(<<"t", "r", "a", "n", "s", "f", "o", "r", "m">>, ("x" :> JStr(<<"a", "b">>)) @@ ("y" :> JInt(5))),
     Request(<<"v", "a", "l", "i", "d", "a", "t", "e">>, ("email" :> JStr(<<"a", "@", "b">>)) @@ ("age" :> JInt(30))),
     Request(<<"v", "a", "l", "i", "d", "a", "t", "e">>, "email" :> JStr(<<"x">>)),
     Request(<<"n", "o", "p", "e">>, EmptyMap),
     [wf |-> FALSE]}

-----------------------------------------------------------------------------
(* Calls.  A call runs an entry point to its return; last is the call that *)
(* has returned and whose result the host holds: its entry point, its      *)
(* text, the handlers it ran and what it returned.  Release is the host    *)
(* letting go of that result, after which nothing of the call is left.     *)
(* log is the sequence of the calls made so far to one instance, kept by   *)
(* SpecSeq only.                                                           *)

NoCall == [entry |-> "none"]

\* the iteration orders of input that a call of execute on the text may meet
\* (only the transform arm iterates)
Orders(input_json) ==
    LET parsed == from_str(input_json)
    IN  IF parsed.ok /\ Dispatch(parsed.val.function) = "transform"
        THEN IterationOrders(parsed.val.input)
        ELSE {<<>>}

\* the handlers a call of execute runs
execute_ran(input_json) ==
    LET parsed == from_str(input_json)
    IN  IF parsed.ok /\ Dispatch(parsed.val.function) # "none"
        THEN <<Dispatch(parsed.val.function)>>
        ELSE <<>>

validate_input_ran(input_json) == IF from_str(input_json).ok THEN <<"validate">> ELSE <<>>

ExecuteCall(input_json) ==
    \E order \in Orders(input_json) :
        last' = [entry |-> "execute", text |-> input_json,
                 ran |-> execute_ran(input_json),
                 result |-> execute(input_json, order)]

ValidateInputCall(input_json) ==
    last' = [entry |-> "validate_input", text |-> input_json,
             ran |-> validate_input_ran(input_json),
             result |-> validate_input(input_json)]

CollectDataCall(input_json) ==
    last' = [entry |-> "collect_data", text |-> input_json,
             ran |-> <<>>,
             result |-> collect_data(input_json)]

Init == last = NoCall /\ log = <<>>

CallExecute == last = NoCall /\ \E t \in Texts : ExecuteCall(t) /\ UNCHANGED log

CallValidateInput == last = NoCall /\ \E t \in Texts : ValidateInputCall(t) /\ UNCHANGED log

CallCollectData == last = NoCall /\ \E t \in Texts : CollectDataCall(t) /\ UNCHANGED log

Release == last # NoCall /\ last' = NoCall /\ UNCHANGED log

Next == CallExecute \/ CallValidateInput \/ CallCollectData \/ Release

Spec == Init /\ [][Next]_vars

SeqExecute ==
    /\ last = NoCall /\ Len(log) < MaxCalls
    /\ \E t \in SeqTexts : ExecuteCall(t) /\ log' = Append(log, last')

SeqValidateInput ==
    /\ last = NoCall /\ Len(log) < MaxCalls
    /\ \E t \in SeqTexts : ValidateInputCall(t) /\ log' = Append(log, last')

SeqCollectData ==
    /\ last = NoCall /\ Len(log) < MaxCalls
    /\ \E t \in SeqTexts : CollectDataCall(t) /\ log' = Append(log, last')

SeqNext == SeqExecute \/ SeqValidateInput \/ SeqCollectData \/ Release

SpecSeq == Init /\ [][SeqNext]_vars

-----------------------------------------------------------------------------
(* Properties *)

\* the call in last has returned from the entry point e
Returned(e) == last # NoCall /\ last.entry = e

\* the call in last has returned an outcome (not a hard failure)
HasOutcome == last # NoCall /\ last.result.ok

\* the request of the call in last, when its text decodes
Decodes == last # NoCall /\ from_str(last.text).ok

Req == from_str(last.text).val

\* the wire outcome of a failure with the given message
FailureOutcome(message) ==
    ("success" :> FALSE) @@ ("error" :> message) @@ ("action" :> "fail")

\* C1: for every decodable request, execute runs exactly the one handler that the
\* function name selects by exact equality (execute and greet run greet, validate
\* runs validate, transform runs transform, branch runs branch_example) and returns
\* its outcome; for every other name it runs no handler and returns the failure
\* "Unknown function: {name}" with no data.
C1_Table(name) ==
    IF name = <<"e", "x", "e", "c", "u", "t", "e">> \/ name = <<"g", "r", "e", "e", "t">> THEN <<"greet">>
    ELSE IF name = <<"v", "a", "l", "i", "d", "a", "t", "e">> THEN <<"validate">>
    ELSE IF name = <<"t", "r", "a", "n", "s", "f", "o", "r", "m">> THEN <<"transform">>
    ELSE IF name = <<"b", "r", "a", "n", "c", "h">> THEN <<"branch_example">>
    ELSE <<>>

C1_DispatchExact ==
    (Returned("execute") /\ Decodes) =>
        /\ last.ran = C1_Table(Req.function)
        /\ last.ran = <<"greet">> => last.result = Ok(to_string(greet(Req)))
        /\ last.ran = <<"validate">> => last.result = Ok(to_string(validate(Req)))
        /\ last.ran = <<"transform">> =>
               \E o \in IterationOrders(Req.input) :
                   last.result = Ok(to_string(transform(Req, o)))
        /\ last.ran = <<"branch_example">> =>
               last.result = Ok(to_string(branch_example(Req)))
        /\ last.ran = <<>> =>
               last.result = Ok(FailureOutcome("Unknown function: " \o Display(Req.function)))

C1_Witness ==
    /\ Returned("execute") /\ Decodes
    /\ Req.function = <<"G", "r", "e", "e", "t">>
    /\ last.ran = <<>>
    /\ last.result = Ok(FailureOutcome("Unknown function: Greet"))

\* C2: every outcome returned by execute, validate_input or collect_data is
\* well-formed: success true means error absent, data present and action not
\* fail; success false means action fail, error present and data absent.
C2_WellFormed ==
    HasOutcome =>
        LET o == last.result.val
        IN  /\ o["success"] = TRUE =>
                   /\ "error" \notin DOMAIN o
                   /\ "data" \in DOMAIN o
                   /\ "action" \in DOMAIN o => o["action"] # "fail"
            /\ o["success"] = FALSE =>
                   /\ "action" \in DOMAIN o /\ o["action"] = "fail"
                   /\ "error" \in DOMAIN o
                   /\ "data" \notin DOMAIN o

C2_Witness ==
    /\ Returned("validate_input") /\ HasOutcome
    /\ last.result.val["success"] = FALSE
    /\ DOMAIN last.result.val = {"success", "error", "action"}

\* C3: collect_data, whatever its input text, returns the fixed form-schema
\* outcome with success true and the action "requireInput", one of the four
\* directives continue, fail, requireInput, branch.
C3_CollectDataRequireInput ==
    Returned("collect_data") =>
        /\ last.result.ok
        /\ last.result.val["success"] = TRUE
        /\ last.result.val["data"] = form_schema
        /\ last.result.val["action"] = "requireInput"
        /\ last.result.val["action"] \in {"continue", "fail", "requireInput", "branch"}

\* the rule of validate as the claims state it
EmailRuleHolds(input) ==
    /\ "email" \in DOMAIN input
    /\ input["email"].t = "str"
    /\ input["email"].s # <<>>
    /\ \E i \in DOMAIN input["email"].s : input["email"].s[i] = "@"

IsNumberIn0To150(v) ==
    /\ v.t = "num"
    /\ IF v.k = "Float"
       THEN v.whole >= 0 /\ (v.whole < 150 \/ (v.whole = 150 /\ ~v.half))
       ELSE v.n >= 0 /\ v.n <= 150

AgeRuleHolds(input) == "age" \in DOMAIN input => IsNumberIn0To150(input["age"])

\* C4: validate returns the success outcome (data {validated: true}, action
\* continue) exactly when email is a non-empty string containing @ and age is
\* absent or a number in [0, 150]; otherwise it returns a failure outcome.
C4_ValidateIff ==
    (HasOutcome /\ last.ran = <<"validate">>) =>
        IF EmailRuleHolds(Req.input) /\ AgeRuleHolds(Req.input)
        THEN last.result.val =
                 ("success" :> TRUE) @@ ("action" :> "continue")
                 @@ ("data" :> ("validated" :> JBool(TRUE)))
        ELSE last.result.val["success"] = FALSE

\* the message of the email check, if it reports one
C5_EmailMessage(input) ==
    IF ~("email" \in DOMAIN input) \/ input["email"].t # "str" \/ input["email"].s = <<>>
    THEN <<"Email is required">>
    ELSE IF ~(\E i \in DOMAIN input["email"].s : input["email"].s[i] = "@")
    THEN <<"Email must contain @">>
    ELSE <<>>

\* the message of the age check, if it reports one ("Age must be a number" is
\* what it reports for every age that is no integer)
C5_AgeMessage(input) ==
    IF ~("age" \in DOMAIN input) THEN <<>>
    ELSE IF input["age"].t # "num" \/ input["age"].k = "Float"
    THEN <<"Age must be a number">>
    ELSE IF input["age"].n < 0 \/ input["age"].n > 150
    THEN <<"Age must be between 0 and 150">>
    ELSE <<>>

OutKey(k, v) == IF v.t = "str" THEN k \o "_transformed" ELSE k

\* the value transform writes for the entry (k, v)
OutValue(v) == IF v.t = "str" THEN JStr(to_uppercase(v.s)) ELSE v

MetadataHolds(data) ==
    /\ "transformed_at" \in DOMAIN data
    /\ data["transformed_at"] = JStr(<<"2", "0", "2", "4", "-", "0", "1", "-", "0", "1", "T", "0", "0", ":", "0", "0", ":", "0", "0", "Z">>)
    /\ "transformer" \in DOMAIN data
    /\ data["transformer"] = JStr(<<"h", "e", "l", "l", "o", "-", "p", "l", "u", "g", "i", "n">>)

\* C6 as stated: transform always succeeds with action continue, and for EVERY
\* input map, colliding keys included, data holds {k}_transformed with v
\* upper-cased for every string entry, k with v unchanged for every other entry,
\* and the two metadata keys with their fixed values.
C6_TransformAllEntries ==
    (HasOutcome /\ last.ran = <<"transform">>) =>
        LET o == last.result.val
        IN  /\ o["success"] = TRUE /\ o["action"] = "continue"
            /\ MetadataHolds(o["data"])
            /\ \A k \in DOMAIN Req.input :
                   /\ OutKey(k, Req.input[k]) \in DOMAIN o["data"]
                   /\ o["data"][OutKey(k, Req.input[k])] = OutValue(Req.input[k])

\* C6 amended: transform always succeeds with action continue and data holds the
\* two metadata keys with their fixed values; for every entry (k, v) whose output
\* key ({k}_transformed for a string, k otherwise) is neither a metadata key nor
\* the output key of another entry, data holds that key with v upper-cased (a
\* string) or unchanged (any other value); where several entries share an output
\* key that is no metadata key, data holds under it the value written for one of
\* them; data holds no other key.
C6_TransformDistinctKeys ==
    (HasOutcome /\ last.ran = <<"transform">>) =>
        LET o == last.result.val
            in == Req.input
        IN  /\ o["success"] = TRUE /\ o["action"] = "continue"
            /\ MetadataHolds(o["data"])
            /\ DOMAIN o["data"] =
                   {OutKey(k, in[k]) : k \in DOMAIN in} \cup {"transformed_at", "transformer"}
            /\ \A k \in DOMAIN in :
                   (/\ OutKey(k, in[k]) \notin {"transformed_at", "transformer"}
                    /\ \A k2 \in DOMAIN in : k2 # k => OutKey(k2, in[k2]) # OutKey(k, in[k]))
                   => o["data"][OutKey(k, in[k])] = OutValue(in[k])
            /\ \A k \in DOMAIN in :
                   OutKey(k, in[k]) \notin {"transformed_at", "transformer"}
                   => o["data"][OutKey(k, in[k])] \in
                          {OutValue(in[k2]) :
                              k2 \in {x \in DOMAIN in : OutKey(x, in[x]) = OutKey(k, in[k])}}

C6_Witness ==
    /\ HasOutcome /\ last.ran = <<"transform">>
    /\ Req.input = ("x" :> JStr(<<"Q", "z", "@">>)) @@ ("transformer" :> JInt(5))
    /\ last.result.val["data"] =
           ("x_transformed" :> JStr(<<"Q", "Z", "@">>)) @@ ("transformer" :> JStr(<<"h", "e", "l", "l", "o", "-", "p", "l", "u", "g", "i", "n">>))
           @@ ("transformed_at" :> JStr(<<"2", "0", "2", "4", "-", "0", "1", "-", "0", "1", "T", "0", "0", ":", "0", "0", ":", "0", "0", "Z">>))

\* the role branch_example reads and the branch the claim gives it
C7_Role(input) ==
    IF "role" \in DOMAIN input /\ input["role"].t = "str" THEN input["role"].s ELSE <<"u", "s", "e", "r">>

C7_BranchOf(role) ==
    IF role = <<"a", "d", "m", "i", "n">> THEN <<"a", "d", "m", "i", "n", "_", "f", "l", "o", "w">>
    ELSE IF role = <<"m", "o", "d", "e", "r", "a", "t", "o", "r">> THEN <<"m", "o", "d", "e", "r", "a", "t", "o", "r", "_", "f", "l", "o", "w">>
    ELSE <<"d", "e", "f", "a", "u", "l", "t", "_", "f", "l", "o", "w">>

\* C7: branch_example returns a success outcome with action branch whose data
\* holds branchId = selected_branch = admin_flow for the role admin,
\* moderator_flow for moderator, default_flow for every other role (an absent or
\* non-string role counting as user), and the role; and every outcome with action
\* branch carries data.branchId equal to the chosen branch.
C7_BranchOutcome ==
    /\ (HasOutcome /\ last.ran = <<"branch_example">>) =>
           last.result.val =
               ("success" :> TRUE) @@ ("action" :> "branch")
               @@ ("data" :> (("branchId" :> JStr(C7_BranchOf(C7_Role(Req.input))))
                              @@ ("selected_branch" :> JStr(C7_BranchOf(C7_Role(Req.input))))
                              @@ ("role" :> JStr(C7_Role(Req.input)))))
    /\ (HasOutcome /\ "action" \in DOMAIN last.result.val
                   /\ last.result.val["action"] = "branch") =>
           /\ last.ran = <<"branch_example">>
           /\ "branchId" \in DOMAIN last.result.val["data"]
           /\ last.result.val["data"]["branchId"] = last.result.val["data"]["selected_branch"]

C7_Witness ==
    /\ HasOutcome /\ last.ran = <<"branch_example">>
    /\ Req.input = ("role" :> JStr(<<"m", "o", "d", "e", "r", "a", "t", "o", "r">>))
    /\ last.result.val["action"] = "branch"
    /\ last.result.val["data"]["branchId"] = JStr(<<"m", "o", "d", "e", "r", "a", "t", "o", "r", "_", "f", "l", "o", "w">>)

\* execute was called with a decodable request naming no handler
C8_UnknownFunction ==
    Decodes /\ Returned("execute") /\ C1_Table(Req.function) = <<>>

\* the validate handler was reached with a request violating its rule
C8_RuleViolated ==
    /\ Decodes
    /\ Returned("validate_input") \/ (Returned("execute") /\ Req.function = <<"v", "a", "l", "i", "d", "a", "t", "e">>)
    /\ ~(EmailRuleHolds(Req.input) /\ AgeRuleHolds(Req.input))

\* C8: a call ends either in a hard failure, which happens only when the request
\* text cannot be decoded and carries no outcome, or in an outcome.  An unknown
\* function name and a violated validation rule never give a hard failure: the
\* call returns the outcome success false, action fail, a non-empty error, no data.
C8_HardAndSoftFailures ==
    /\ (last # NoCall /\ ~last.result.ok) =>
           /\ ~from_str(last.text).ok
           /\ last.entry \in {"execute", "validate_input"}
           /\ "val" \notin DOMAIN last.result
    /\ (last # NoCall /\ last.result.ok) => "err" \notin DOMAIN last.result
    /\ (C8_UnknownFunction \/ C8_RuleViolated) =>
           /\ last.result.ok
           /\ DOMAIN last.result.val = {"success", "error", "action"}
           /\ last.result.val["success"] = FALSE
           /\ last.result.val["action"] = "fail"
           /\ last.result.val["error"] # ""

C8_Witness ==
    /\ Returned("execute") /\ Decodes
    /\ Req.function = <<"n", "o", "p", "e">>
    /\ last.result.ok
    /\ last.result.val["success"] = FALSE
    /\ last.result.val["error"] = "Unknown function: nope"

\* C9: for every decodable request validate_input returns what the validate
\* handler returns on it, whatever the function field: the same as execute
\* returns for the request with function "validate" and the same input, and
\* never an "Unknown function" failure.
C9_ValidateInputIgnoresFunction ==
    (Returned("validate_input") /\ Decodes) =>
        /\ last.ran = <<"validate">>
        /\ last.result = execute(Request(<<"v", "a", "l", "i", "d", "a", "t", "e">>, Req.input), <<>>)
        /\ last.result.ok
        /\ "error" \in DOMAIN last.result.val =>
               last.result.val["error"] # "Unknown function: " \o Display(Req.function)

C9_Witness ==
    /\ Returned("validate_input") /\ Decodes
    /\ Req.function = <<"n", "o", "p", "e">>
    /\ Req.input = ("email" :> JStr(<<"a", "@">>)) @@ ("age" :> JInt(30))
    /\ last.result.val["success"] = TRUE

\* C10: the unit is stateless across calls: in any sequence of calls, two calls of
\* the same entry point with the same request text return the same result.
C10_SameRequestSameResult ==
    \A i, j \in DOMAIN log :
        (log[i].entry = log[j].entry /\ log[i].text = log[j].text) =>
            log[i].result = log[j].result

====
